---- MODULE Spec2Model ----
(***************************************************************************)
(* Model of frame/merkle-mountain-range/rpc/src/lib.rs: the MMR RPC        *)
(* handler `generate_proof`, its error mapping, and the LeafProof payload  *)
(* with its SCALE/hex/JSON codec.                                          *)
(*                                                                         *)
(* Values:                                                                 *)
(*   byte        0..255                                                    *)
(*   Vec<u8>     a sequence of bytes                                       *)
(*   u64         four 16-bit limbs, most significant first                 *)
(*               <<a,b,c,d>> = a*2^48 + b*2^32 + c*2^16 + d                *)
(*   H256        a sequence of 32 bytes                                    *)
(*   Option<T>   <<>> for None, <<v>> for Some(v)                          *)
(*   text        a sequence of one-character strings                       *)
(***************************************************************************)
EXTENDS Integers, Sequences, FiniteSets, TLC

\* ------------------------------------------------------------------ bounds

\* Number of generate_proof calls that may be in flight together.
NumCalls == 2

\* Longest leaf (Vec<u8>) drawn exhaustively for the codec.
MaxLeafLen == 2

\* ------------------------------------------------------------- error codes

RUNTIME_ERROR == 8000

MMR_ERROR == 8010

GENERATE_PROOF_ERROR_slip == MMR_ERROR + 1

LEAF_NOT_FOUND_ERROR == MMR_ERROR + 1

GENERATE_PROOF_ERROR == MMR_ERROR + 2

\* ------------------------------------------------------------ byte helpers

Byte == 0..255

RECURSIVE Repeat(_, _)
Repeat(b, n) == IF n = 0 THEN <<>> ELSE <<b>> \o Repeat(b, n - 1)

\* H256::repeat_byte
H256_repeat_byte(b) == Repeat(b, 32)

RECURSIVE Flatten(_)
Flatten(ss) == IF ss = <<>> THEN <<>> ELSE Head(ss) \o Flatten(Tail(ss))

\* A u64 is held as four limbs of 16 bits.
LimbBase == 65536

U64_ZERO == <<0, 0, 0, 0>>

U64_ONE == <<0, 0, 0, 1>>

U64_MAX == <<LimbBase - 1, LimbBase - 1, LimbBase - 1, LimbBase - 1>>

\* u64::encode: eight bytes, little-endian.
EncodeU64(n) ==
    Flatten([k \in 1..4 |-> <<n[5 - k] % 256, n[5 - k] \div 256>>])

\* u64::decode of the eight bytes starting at offset `at` (1-based).
DecodeU64(bytes, at) ==
    [k \in 1..4 |-> bytes[at + 2 * (4 - k)] + 256 * bytes[at + 2 * (4 - k) + 1]]

\* Compact<u32>::encode, the length prefix of a Vec.
EncodeCompact(n) ==
    IF n < 64 THEN <<n * 4>>
    ELSE IF n < 16384 THEN <<(n % 64) * 4 + 1, n \div 64>>
    ELSE IF n < 1073741824
        THEN <<(n % 64) * 4 + 2, (n \div 64) % 256,
               (n \div 16384) % 256, n \div 4194304>>
    ELSE <<3, n % 256, (n \div 256) % 256, (n \div 65536) % 256, n \div 16777216>>

\* Vec<u8>::encode, the Leaf type of the tests.
EncodeLeaf(leaf) == EncodeCompact(Len(leaf)) \o leaf

\* Vec<H256>::encode.
EncodeItems(items) == EncodeCompact(Len(items)) \o Flatten(items)

EncodeProof_countFirst(proof) ==
    EncodeU64(proof.leaf_count) \o EncodeU64(proof.leaf_index)
        \o EncodeItems(proof.items)

\* Proof<MmrHash>::encode: the fields in declaration order.
EncodeProof(proof) ==
    EncodeU64(proof.leaf_index) \o EncodeU64(proof.leaf_count)
        \o EncodeItems(proof.items)

LeafProof_new_leafTwice(block_hash, leaf, proof) ==
    [block_hash |-> block_hash, leaf |-> EncodeLeaf(leaf), proof |-> EncodeLeaf(leaf)]

\* LeafProof::new
LeafProof_new(block_hash, leaf, proof) ==
    [block_hash |-> block_hash,
     leaf |-> EncodeLeaf(leaf),
     proof |-> EncodeProof(proof)]

\* ------------------------------------------------------------------- hex

HexDigits == <<"0", "1", "2", "3", "4", "5", "6", "7",
               "8", "9", "a", "b", "c", "d", "e", "f">>

HexDigitsUpper == <<"0", "1", "2", "3", "4", "5", "6", "7",
                    "8", "9", "A", "B", "C", "D", "E", "F">>

\* Serialize for Bytes and H256: "0x" then two lowercase digits per byte.
ToHex(bytes) ==
    <<"0", "x">> \o Flatten([k \in 1..Len(bytes) |->
        <<HexDigits[(bytes[k] \div 16) + 1], HexDigits[(bytes[k] % 16) + 1]>>])

IsHexDigit(ch) == \E v \in 1..16 : HexDigits[v] = ch \/ HexDigitsUpper[v] = ch

HexValue(ch) == (CHOOSE v \in 1..16 : HexDigits[v] = ch \/ HexDigitsUpper[v] = ch) - 1

\* Deserialize for Bytes: <<bytes>> on success, <<>> on a malformed text.
FromHex(text) ==
    IF Len(text) < 2 \/ SubSeq(text, 1, 2) # <<"0", "x">> THEN <<>>
    ELSE LET digits == SubSeq(text, 3, Len(text))
         IN IF Len(digits) % 2 # 0 \/ \E k \in 1..Len(digits) : ~IsHexDigit(digits[k])
            THEN <<>>
            ELSE << [k \in 1..(Len(digits) \div 2) |->
                        16 * HexValue(digits[2 * k - 1]) + HexValue(digits[2 * k])] >>

\* Deserialize for H256: as Bytes, and exactly 32 of them.
H256FromHex(text) ==
    LET r == FromHex(text)
    IN IF r # <<>> /\ Len(r[1]) = 32 THEN r ELSE <<>>

\* ------------------------------------------------------------------ JSON

\* A JSON object is the sequence of its <<key, text>> members, in order.
JsonGet(obj, key) ==
    LET hits == {k \in 1..Len(obj) : obj[k][1] = key}
    IN IF Cardinality(hits) = 1 THEN <<obj[CHOOSE k \in hits : TRUE][2]>> ELSE <<>>

Serialize_swapped(x) ==
    <<<<"blockHash", ToHex(x.block_hash)>>,
      <<"leaf", ToHex(x.proof)>>,
      <<"proof", ToHex(x.leaf)>>>>

\* #[derive(Serialize)] #[serde(rename_all = "camelCase")] on LeafProof
Serialize(x) ==
    <<<<"blockHash", ToHex(x.block_hash)>>,
      <<"leaf", ToHex(x.leaf)>>,
      <<"proof", ToHex(x.proof)>>>>

\* #[derive(Deserialize)] on LeafProof: <<x>> on success, <<>> on an error.
Deserialize(obj) ==
    LET b == JsonGet(obj, "blockHash")
        l == JsonGet(obj, "leaf")
        p == JsonGet(obj, "proof")
    IN IF b = <<>> \/ l = <<>> \/ p = <<>> THEN <<>>
       ELSE IF H256FromHex(b[1]) = <<>> \/ FromHex(l[1]) = <<>> \/ FromHex(p[1]) = <<>>
            THEN <<>>
       ELSE << [block_hash |-> H256FromHex(b[1])[1],
                leaf |-> FromHex(l[1])[1],
                proof |-> FromHex(p[1])[1]] >>

\* ------------------------------------------------------------ error mapping

\* pallet_mmr_primitives::Error
MmrErrors == {"Push", "GetRoot", "Commit", "GenerateProof", "Verify", "LeafNotFound"}

\* Dispatch-level failures of the runtime call.
ApiErrors == {"UnknownBlock"}

\* ErrorObject::owned(code, message, Some(data))
ErrorObject_owned(code, message, data) ==
    [tag |-> "Err", code |-> code, message |-> message, data |-> data]

mmr_error_into_rpc_error_noMatch(err) ==
    ErrorObject_owned(MMR_ERROR, "Unexpected MMR error", err)

mmr_error_into_rpc_error(err) ==
    IF err = "LeafNotFound"
        THEN ErrorObject_owned(LEAF_NOT_FOUND_ERROR, "Leaf was not found", err)
    ELSE IF err = "GenerateProof"
        THEN ErrorObject_owned(GENERATE_PROOF_ERROR, "Error while generating the proof", err)
    ELSE ErrorObject_owned(MMR_ERROR, "Unexpected MMR error", err)

runtime_error_into_rpc_error(err) ==
    ErrorObject_owned(RUNTIME_ERROR, "Runtime trapped", err)

\* -------------------------------------------------------------------- state

VARIABLES
    best_hash,    \* the client's info().best_hash
    pc,           \* per call: "idle", "query" (block_hash resolved), "done"
    leaf_index,   \* per call: the leaf_index argument
    at,           \* per call: the `at` argument, an Option
    block_hash,   \* per call: the local block_hash of generate_proof
    info_calls,   \* per call: how many times it asked the client for info()
    queries,      \* per call: the runtime calls it issued, in order
    answer,       \* per call: what the runtime answered, an Option
    result,       \* per call: what generate_proof returned, an Option
    input,        \* codec: the arguments given to LeafProof::new, an Option
    value,        \* codec: the LeafProof under serialization, an Option
    json,         \* codec: its serialized form, an Option
    parsed        \* codec: the outcome of deserializing it, an Option of an Option

handler_vars == <<best_hash, pc, leaf_index, at, block_hash, info_calls, queries,
                  answer, result>>

codec_vars == <<input, value, json, parsed>>

vars == <<best_hash, pc, leaf_index, at, block_hash, info_calls, queries,
          answer, result, input, value, json, parsed>>

Calls == 1..NumCalls

Option(S) == {<<>>} \cup {<<v>> : v \in S}

\* Snapshots the client knows.
Hashes == {H256_repeat_byte(0), H256_repeat_byte(171)}

GenesisHash == H256_repeat_byte(0)

\* Leaf indices requested of the handler: 0 and u64::MAX.
LeafIndices == {U64_ZERO, U64_MAX}

\* ------------------------------------------------------- the runtime (stub)

StubCount == <<0, 0, 0, 9>>

\* What the accumulator can answer to generate_proof(i) at `snapshot`: one of
\* its errors, or a leaf with the proof of leaf i.
AccumulatorAnswers(snapshot, i) ==
    {[tag |-> "Err", err |-> e] : e \in MmrErrors}
    \cup {[tag |-> "Ok", leaf |-> <<1, 2, 3, 4>>,
           proof |-> [leaf_index |-> i, leaf_count |-> StubCount,
                      items |-> <<snapshot>>]],
          [tag |-> "Ok", leaf |-> <<>>,
           proof |-> [leaf_index |-> i, leaf_count |-> U64_MAX, items |-> <<>>]]}

\* What the accumulator would have answered to a call that is not dispatched.
UndispatchedAnswers(snapshot, i) ==
    {a \in AccumulatorAnswers(snapshot, i) :
        \/ a.tag = "Err" /\ a.err = "LeafNotFound"
        \/ a.tag = "Ok" /\ a.leaf # <<>>}

\* What the runtime can answer to generate_proof_with_context(snapshot, _, i):
\* whether the call could be dispatched, and the accumulator's answer.
RuntimeAnswers(snapshot, i) ==
    {[dispatch |-> <<>>, accumulator |-> a] : a \in AccumulatorAnswers(snapshot, i)}
    \cup {[dispatch |-> <<e>>, accumulator |-> a] :
            e \in ApiErrors, a \in UndispatchedAnswers(snapshot, i)}

\* The Result<Result<(Leaf, Proof), MmrError>, ApiError> the runtime call returns.
RuntimeCall(ans) ==
    IF ans.dispatch # <<>>
        THEN [tag |-> "Err", err |-> ans.dispatch[1]]
        ELSE [tag |-> "Ok", value |-> ans.accumulator]

\* --------------------------------------------------------------- the handler

ResolveBlockHash_cached(a) == IF a # <<>> THEN a[1] ELSE GenesisHash

\* at.unwrap_or_else(|| self.client.info().best_hash)
ResolveBlockHash(a) == IF a # <<>> THEN a[1] ELSE best_hash

InfoCalls_eager(a) == 1

\* How often resolving `a` asks the client for info(): the closure of
\* unwrap_or_else runs only for None.
InfoCalls(a) == IF a # <<>> THEN 0 ELSE 1

\* The arguments of api.generate_proof_with_context(..).
QueryArgs_firstLeaf(c) == [snapshot |-> block_hash[c], leaf_index |-> U64_ZERO]

QueryArgs(c) == [snapshot |-> block_hash[c], leaf_index |-> leaf_index[c]]

\* The block hash handed to LeafProof::new.
ResponseHash_bestNow(c) == ResolveBlockHash(at[c])

ResponseHash(c) == block_hash[c]

GenerateProofOutcome_unwrapOrDefault(bh, r) ==
    IF r.tag = "Err" THEN runtime_error_into_rpc_error(r.err)
    ELSE IF r.value.tag = "Err"
        THEN [tag |-> "Ok", value |-> [block_hash |-> bh, leaf |-> <<>>, proof |-> <<>>]]
    ELSE [tag |-> "Ok", value |-> LeafProof_new(bh, r.value.leaf, r.value.proof)]

\* The two `map_err(..)?` and the final Ok(LeafProof::new(..)).
GenerateProofOutcome(bh, r) ==
    IF r.tag = "Err" THEN runtime_error_into_rpc_error(r.err)
    ELSE IF r.value.tag = "Err" THEN mmr_error_into_rpc_error(r.value.err)
    ELSE [tag |-> "Ok", value |-> LeafProof_new(bh, r.value.leaf, r.value.proof)]

\* generate_proof, first statement pair: the call is entered with its
\* arguments and block_hash is resolved.
Invoke(c) ==
    /\ pc[c] = "idle"
    /\ \E i \in LeafIndices, a \in Option(Hashes) :
        /\ leaf_index' = [leaf_index EXCEPT ![c] = i]
        /\ at' = [at EXCEPT ![c] = a]
        /\ block_hash' = [block_hash EXCEPT ![c] = ResolveBlockHash(a)]
        /\ info_calls' = [info_calls EXCEPT ![c] = @ + InfoCalls(a)]
    /\ pc' = [pc EXCEPT ![c] = "query"]
    /\ UNCHANGED <<best_hash, queries, answer, result>>
    /\ UNCHANGED codec_vars

\* generate_proof, the runtime call and the return.
Query(c) ==
    /\ pc[c] = "query"
    /\ \E ans \in RuntimeAnswers(QueryArgs(c).snapshot, QueryArgs(c).leaf_index) :
        /\ queries' = [queries EXCEPT ![c] = Append(@, QueryArgs(c))]
        /\ answer' = [answer EXCEPT ![c] = <<ans>>]
        /\ result' = [result EXCEPT ![c] =
                <<GenerateProofOutcome(ResponseHash(c), RuntimeCall(ans))>>]
    /\ pc' = [pc EXCEPT ![c] = "done"]
    /\ UNCHANGED <<best_hash, leaf_index, at, block_hash, info_calls>>
    /\ UNCHANGED codec_vars

\* The chain advances: the client's best block changes.
ImportBlock ==
    /\ \E h \in Hashes \ {best_hash} : best_hash' = h
    /\ UNCHANGED <<pc, leaf_index, at, block_hash, info_calls, queries, answer, result>>
    /\ UNCHANGED codec_vars

Init ==
    /\ best_hash = GenesisHash
    /\ pc = [c \in Calls |-> "idle"]
    /\ leaf_index = [c \in Calls |-> U64_ZERO]
    /\ at = [c \in Calls |-> <<>>]
    /\ block_hash = [c \in Calls |-> GenesisHash]
    /\ info_calls = [c \in Calls |-> 0]
    /\ queries = [c \in Calls |-> <<>>]
    /\ answer = [c \in Calls |-> <<>>]
    /\ result = [c \in Calls |-> <<>>]
    /\ input = <<>>
    /\ value = <<>>
    /\ json = <<>>
    /\ parsed = <<>>

Next ==
    \/ \E c \in Calls : Invoke(c)
    \/ \E c \in Calls : Query(c)
    \/ ImportBlock

Spec == Init /\ [][Next]_vars

\* ----------------------------------------------------------------- the codec

\* Bytes the leaves and byte strings of the codec runs are made of.
SampleBytes == {0, 1, 171, 255}

\* The leaf of tests::should_serialize_leaf_proof.
TestLeaf == <<1, 2, 3, 4>>

\* A leaf long enough for a two-byte length prefix.
LongLeaf == Repeat(7, 64)

Leaves ==
    UNION {[1..n -> SampleBytes] : n \in 0..MaxLeafLen} \cup {TestLeaf, LongLeaf}

\* The proof of tests::should_serialize_leaf_proof.
TestProof ==
    [leaf_index |-> U64_ONE, leaf_count |-> StubCount,
     items |-> <<H256_repeat_byte(1), H256_repeat_byte(2)>>]

Proofs ==
    [leaf_index : {U64_ZERO, U64_ONE, U64_MAX, <<258, 772, 1286, 1800>>},
     leaf_count : {StubCount, U64_MAX},
     items : {<<>>, <<H256_repeat_byte(1)>>,
              <<H256_repeat_byte(1), H256_repeat_byte(2)>>,
              <<H256_repeat_byte(2), H256_repeat_byte(1)>>}]

\* Arguments of LeafProof::new.
NewInputs == [block_hash : Hashes, leaf : Leaves, proof : Proofs]

\* LeafProof values written as struct literals: any bytes in either field.
LeafProofValues == [block_hash : Hashes, leaf : Leaves, proof : Leaves]

CodecInit ==
    /\ best_hash = GenesisHash
    /\ pc = [c \in Calls |-> "idle"]
    /\ leaf_index = [c \in Calls |-> U64_ZERO]
    /\ at = [c \in Calls |-> <<>>]
    /\ block_hash = [c \in Calls |-> GenesisHash]
    /\ info_calls = [c \in Calls |-> 0]
    /\ queries = [c \in Calls |-> <<>>]
    /\ answer = [c \in Calls |-> <<>>]
    /\ result = [c \in Calls |-> <<>>]
    /\ \/ input \in {<<i>> : i \in NewInputs} /\ value = <<>>
       \/ input = <<>> /\ value \in {<<x>> : x \in LeafProofValues}
    /\ json = <<>>
    /\ parsed = <<>>

\* LeafProof::new(block_hash, leaf, proof)
New ==
    /\ input # <<>>
    /\ value = <<>>
    /\ value' = <<LeafProof_new(input[1].block_hash, input[1].leaf, input[1].proof)>>
    /\ UNCHANGED <<input, json, parsed>>
    /\ UNCHANGED handler_vars

\* serde_json::to_string(&leaf_proof)
SerializeStep ==
    /\ value # <<>>
    /\ json = <<>>
    /\ json' = <<Serialize(value[1])>>
    /\ UNCHANGED <<input, value, parsed>>
    /\ UNCHANGED handler_vars

\* serde_json::from_str(..)
DeserializeStep ==
    /\ json # <<>>
    /\ parsed = <<>>
    /\ parsed' = <<Deserialize(json[1])>>
    /\ UNCHANGED <<input, value, json>>
    /\ UNCHANGED handler_vars

CodecNext == New \/ SerializeStep \/ DeserializeStep

CodecSpec == CodecInit /\ [][CodecNext]_vars

\* ------------------------------------------------------------------ claims

Done(c) == pc[c] = "done"

Dispatched(c) == answer[c][1].dispatch = <<>>

\* The call failed in the collaborator: not dispatched, or an accumulator error.
Failed(c) == Done(c) /\ (~Dispatched(c) \/ answer[c][1].accumulator.tag = "Err")

Succeeded(c) == Done(c) /\ Dispatched(c) /\ answer[c][1].accumulator.tag = "Ok"

IsError(r, code, message) == r.tag = "Err" /\ r.code = code /\ r.message = message

\* C1: every collaborator failure becomes exactly the error of the table: a
\* dispatch failure (whatever the accumulator holds) 8000 "Runtime trapped",
\* LeafNotFound 8011 "Leaf was not found", GenerateProof 8012 "Error while
\* generating the proof", any other accumulator error 8010 "Unexpected MMR
\* error".
ErrorMappingTable ==
    \A c \in Calls : Failed(c) =>
        LET a == answer[c][1]
            r == result[c][1]
        IN IF a.dispatch # <<>> THEN IsError(r, 8000, "Runtime trapped")
           ELSE IF a.accumulator.err = "LeafNotFound"
                THEN IsError(r, 8011, "Leaf was not found")
           ELSE IF a.accumulator.err = "GenerateProof"
                THEN IsError(r, 8012, "Error while generating the proof")
           ELSE IsError(r, 8010, "Unexpected MMR error")

\* An undispatched call whose accumulator held a proof reported 8000, and a
\* dispatched call with a catch-all accumulator error reported 8010.
ErrorMappingWitness ==
    \E c1, c2 \in Calls :
        /\ Failed(c1) /\ ~Dispatched(c1) /\ answer[c1][1].accumulator.tag = "Ok"
        /\ result[c1][1].code = 8000
        /\ Failed(c2) /\ Dispatched(c2) /\ answer[c2][1].accumulator.err = "Verify"
        /\ result[c2][1].code = 8010

\* The tier of a collaborator failure.
FailureTier(a) ==
    IF a.dispatch # <<>> THEN "dispatch"
    ELSE IF a.accumulator.err = "LeafNotFound" THEN "leaf_not_found"
    ELSE IF a.accumulator.err = "GenerateProof" THEN "generate_proof"
    ELSE "other"

\* C2: a failure yields one error whose code lies in the range of its tier
\* (dispatch 8000..8009, accumulator 8010..8019), and failures of different
\* tiers never yield the same code; in particular LeafNotFound and
\* GenerateProof differ.
ErrorDisjointness ==
    /\ \A c \in Calls : Failed(c) =>
        /\ result[c][1].tag = "Err"
        /\ IF FailureTier(answer[c][1]) = "dispatch"
              THEN result[c][1].code \in 8000..8009
              ELSE result[c][1].code \in 8010..8019
    /\ \A c1, c2 \in Calls : Failed(c1) /\ Failed(c2) =>
        (FailureTier(answer[c1][1]) # FailureTier(answer[c2][1])
            => result[c1][1].code # result[c2][1].code)

\* One call failed with LeafNotFound and another with GenerateProof.
ErrorDisjointnessWitness ==
    \E c1, c2 \in Calls :
        /\ Failed(c1) /\ FailureTier(answer[c1][1]) = "leaf_not_found"
        /\ Failed(c2) /\ FailureTier(answer[c2][1]) = "generate_proof"

IsBytes(b) == b \in Seq(Byte)

\* C3: a call returns exactly when it is done; it returns a LeafProof with its
\* three fields iff the call was dispatched and the accumulator returned a
\* pair, and otherwise an error with a code, a message and a detail string.
CompleteOrError ==
    \A c \in Calls :
        /\ Done(c) <=> result[c] # <<>>
        /\ Done(c) =>
            LET r == result[c][1]
            IN /\ r.tag \in {"Ok", "Err"}
               /\ r.tag = "Ok" <=> Succeeded(c)
               /\ r.tag = "Ok" =>
                    /\ DOMAIN r = {"tag", "value"}
                    /\ DOMAIN r.value = {"block_hash", "leaf", "proof"}
                    /\ r.value.block_hash \in Hashes
                    /\ IsBytes(r.value.leaf) /\ Len(r.value.leaf) >= 1
                    /\ IsBytes(r.value.proof) /\ Len(r.value.proof) >= 17
               /\ r.tag = "Err" =>
                    /\ DOMAIN r = {"tag", "code", "message", "data"}
                    /\ r.code \in Int
                    /\ r.message # "" /\ r.data # ""

\* One call returned a LeafProof and another an error.
CompleteOrErrorWitness ==
    \E c1, c2 \in Calls :
        /\ Succeeded(c1) /\ result[c1][1].tag = "Ok"
        /\ Failed(c2) /\ result[c2][1].tag = "Err"

\* C4: the snapshot a call queries is the supplied `at` when given, and
\* otherwise the client's best hash at the moment of the call; every call
\* resolves it anew, also after the best hash has changed.
ResolvesAtCallTime ==
    /\ [][\A c \in Calls : pc[c] = "idle" /\ pc'[c] = "query" =>
            block_hash'[c] = (IF at'[c] # <<>> THEN at'[c][1] ELSE best_hash)]_vars
    /\ [](\A c \in Calls : Done(c) =>
            /\ queries[c][1].snapshot = block_hash[c]
            /\ at[c] # <<>> => queries[c][1].snapshot = at[c][1])

\* Two calls with `at` omitted, the same leaf index and the same answer
\* returned different block hashes, and a call with `at` given queried a
\* snapshot that is not the best one.
ResolvesAtCallTimeWitness ==
    \E c1, c2 \in Calls :
        /\ Succeeded(c1) /\ Succeeded(c2)
        /\ at[c1] = <<>> /\ at[c2] = <<>>
        /\ leaf_index[c1] = leaf_index[c2]
        /\ answer[c1][1].accumulator.leaf = answer[c2][1].accumulator.leaf
        /\ result[c1][1].value.block_hash # result[c2][1].value.block_hash

\* C5: a returned LeafProof carries the snapshot its one query was evaluated
\* at, and the encodings of the leaf and the proof that query returned, also
\* when the best hash moved after the call resolved its snapshot.
ResponseMatchesQuery ==
    \A c \in Calls : Succeeded(c) =>
        /\ Len(queries[c]) = 1
        /\ result[c][1].value.block_hash = queries[c][1].snapshot
        /\ result[c][1].value.leaf = EncodeLeaf(answer[c][1].accumulator.leaf)
        /\ result[c][1].value.proof = EncodeProof(answer[c][1].accumulator.proof)
        /\ answer[c][1] \in RuntimeAnswers(queries[c][1].snapshot, queries[c][1].leaf_index)

\* A call with `at` omitted returned the snapshot it queried although the
\* client's best hash is another one by now.
ResponseMatchesQueryWitness ==
    \E c \in Calls :
        /\ Succeeded(c) /\ at[c] = <<>>
        /\ result[c][1].value.block_hash = queries[c][1].snapshot
        /\ result[c][1].value.block_hash # best_hash

\* C6: the leaf_index in the first eight bytes of the returned proof is the
\* requested index.
LeafIndexFidelity ==
    \A c \in Calls : Succeeded(c) =>
        DecodeU64(result[c][1].value.proof, 1) = leaf_index[c]

\* One call returned a proof for index 0 and another for index u64::MAX.
LeafIndexFidelityWitness ==
    \E c1, c2 \in Calls :
        /\ Succeeded(c1) /\ leaf_index[c1] = U64_ZERO
        /\ DecodeU64(result[c1][1].value.proof, 1) = U64_ZERO
        /\ Succeeded(c2) /\ leaf_index[c2] = U64_MAX
        /\ DecodeU64(result[c2][1].value.proof, 1) = U64_MAX

\* How often a call has asked the client and the runtime so far.
CollaboratorCallsExact(c) ==
    /\ pc[c] = "idle" => info_calls[c] = 0 /\ queries[c] = <<>>
    /\ pc[c] = "query" =>
        info_calls[c] = (IF at[c] = <<>> THEN 1 ELSE 0) /\ queries[c] = <<>>
    /\ Done(c) =>
        info_calls[c] = (IF at[c] = <<>> THEN 1 ELSE 0) /\ Len(queries[c]) = 1

\* C7: a call, failing or not, issues the proof query once and the best-hash
\* query only when `at` is omitted, and then once; it returns on the first
\* answer; no step of a call changes the client's best hash, and a call that
\* has returned does nothing more.
NoRetries ==
    /\ [](\A c \in Calls : CollaboratorCallsExact(c))
    /\ [][\A c \in Calls :
            /\ pc[c] # pc'[c] => best_hash' = best_hash
            /\ Done(c) =>
                /\ pc'[c] = pc[c] /\ queries'[c] = queries[c]
                /\ info_calls'[c] = info_calls[c] /\ result'[c] = result[c]]_vars

\* A call with `at` omitted and one with `at` given have both failed, each
\* after exactly one proof query.
NoRetriesWitness ==
    \E c1, c2 \in Calls :
        /\ Failed(c1) /\ at[c1] = <<>> /\ info_calls[c1] = 1 /\ Len(queries[c1]) = 1
        /\ Failed(c2) /\ at[c2] # <<>> /\ info_calls[c2] = 0 /\ Len(queries[c2]) = 1

\* C10: two calls with the same leaf index, the same resolved snapshot and
\* the same runtime answer return the same result.
ResultDeterminedByOwnInputs ==
    \A c1, c2 \in Calls :
        (/\ Done(c1) /\ Done(c2)
         /\ leaf_index[c1] = leaf_index[c2]
         /\ block_hash[c1] = block_hash[c2]
         /\ RuntimeCall(answer[c1][1]) = RuntimeCall(answer[c2][1]))
        => result[c1] = result[c2]

\* Two calls that differ in `at` (one omitted, one given) and ran while the
\* best hash moved saw the same index, snapshot and answer, and returned the
\* same LeafProof.
ResultDeterminedByOwnInputsWitness ==
    \E c1, c2 \in Calls :
        /\ Succeeded(c1) /\ Succeeded(c2)
        /\ at[c1] = <<>> /\ at[c2] # <<>>
        /\ leaf_index[c1] = leaf_index[c2]
        /\ block_hash[c1] = block_hash[c2]
        /\ block_hash[c1] # best_hash
        /\ RuntimeCall(answer[c1][1]) = RuntimeCall(answer[c2][1])
        /\ result[c1] = result[c2]

\* The member names of a JSON object, in order.
JsonKeys(obj) == [k \in 1..Len(obj) |-> obj[k][1]]

\* C8: deserializing the serialized form of a LeafProof, a JSON object with
\* the members blockHash, leaf and proof, succeeds and gives the LeafProof back.
RoundTrip ==
    /\ json # <<>> => JsonKeys(json[1]) = <<"blockHash", "leaf", "proof">>
    /\ parsed # <<>> => parsed[1] = value

\* A LeafProof with an empty leaf and an empty proof went through the round
\* trip.
RoundTripWitness ==
    /\ parsed # <<>> /\ parsed[1] = value
    /\ value[1].leaf = <<>> /\ value[1].proof = <<>>

\* The texts of tests::should_serialize_leaf_proof.
ExpectedTestLeafHex == <<"0", "x", "1", "0", "0", "1", "0", "2", "0", "3", "0", "4">>

ExpectedTestProofHex ==
    <<"0", "x", "0", "1">> \o Repeat("0", 14) \o <<"0", "9">> \o Repeat("0", 14)
        \o <<"0", "8">> \o Flatten(Repeat(<<"0", "1">>, 32))
        \o Flatten(Repeat(<<"0", "2">>, 32))

ExpectedZeroHashHex == <<"0", "x">> \o Repeat("0", 64)

\* "0x", then two lowercase hex digits for each of the bytes.
IsLowerHexOf(text, bytes) ==
    /\ Len(text) = 2 + 2 * Len(bytes)
    /\ text[1] = "0" /\ text[2] = "x"
    /\ \A k \in 1..Len(bytes) :
        /\ HexDigits[(bytes[k] \div 16) + 1] = text[2 * k + 1]
        /\ HexDigits[(bytes[k] % 16) + 1] = text[2 * k + 2]

\* C9: LeafProof::new keeps the block hash, encodes the leaf on its own, and
\* lays the proof out as leaf_index and leaf_count (eight little-endian bytes
\* each), the item count prefix and the items in the order given, so that
\* swapping two distinct items changes the bytes; serialization renders the
\* bytes as 0x-prefixed lowercase hex, and reproduces the texts of the test.
EncodingLayout ==
    input # <<>> /\ value # <<>> =>
        LET i == input[1]
            x == value[1]
            n == Len(i.proof.items)
        IN /\ x.block_hash = i.block_hash
           /\ x.leaf = EncodeCompact(Len(i.leaf)) \o i.leaf
           /\ Len(x.proof) = 17 + 32 * n
           /\ \A k \in 1..4 :
                /\ x.proof[2 * k - 1] = i.proof.leaf_index[5 - k] % 256
                /\ x.proof[2 * k] = i.proof.leaf_index[5 - k] \div 256
                /\ x.proof[8 + 2 * k - 1] = i.proof.leaf_count[5 - k] % 256
                /\ x.proof[8 + 2 * k] = i.proof.leaf_count[5 - k] \div 256
           /\ x.proof[17] = 4 * n
           /\ \A k \in 1..n : \A j \in 1..32 :
                x.proof[17 + 32 * (k - 1) + j] = i.proof.items[k][j]
           /\ (n = 2 /\ i.proof.items[1] # i.proof.items[2]) =>
                x.proof # LeafProof_new(i.block_hash, i.leaf,
                    [i.proof EXCEPT !.items = <<@[2], @[1]>>]).proof
           /\ json # <<>> =>
                /\ IsLowerHexOf(JsonGet(json[1], "blockHash")[1], x.block_hash)
                /\ IsLowerHexOf(JsonGet(json[1], "leaf")[1], x.leaf)
                /\ IsLowerHexOf(JsonGet(json[1], "proof")[1], x.proof)
                /\ i.block_hash = H256_repeat_byte(0) =>
                    JsonGet(json[1], "blockHash")[1] = ExpectedZeroHashHex
                /\ i.leaf = TestLeaf =>
                    JsonGet(json[1], "leaf")[1] = ExpectedTestLeafHex
                /\ i.proof = TestProof =>
                    JsonGet(json[1], "proof")[1] = ExpectedTestProofHex

\* The LeafProof of the test was built and serialized to the test's texts.
EncodingLayoutWitness ==
    /\ input # <<>> /\ value # <<>> /\ json # <<>>
    /\ input[1].block_hash = H256_repeat_byte(0)
    /\ input[1].leaf = TestLeaf
    /\ input[1].proof = TestProof
    /\ JsonGet(json[1], "leaf")[1] = ExpectedTestLeafHex
    /\ JsonGet(json[1], "proof")[1] = ExpectedTestProofHex

====
